---- MODULE Spec2Model ----
(***************************************************************************)
(* Model of the InversifyJS/Express warrior application:                   *)
(*   - DIContainer: the lazily constructed static container and its        *)
(*     bindings (src/container/DIContainer.ts);                            *)
(*   - App.createApp (src/app.ts) and the entry point's async IIFE         *)
(*     (index.ts);                                                         *)
(*   - WarriorController / InitController (the route handlers);            *)
(*   - Ninja, and the weapons it delegates to.                             *)
(*                                                                         *)
(* Three specifications share the variables:                              *)
(*   Spec      the server process: entry point, listen, requests;          *)
(*   SpecApi   clients of the DIContainer / App API: several createApp()   *)
(*             calls in flight at once and direct resolveDependencies()    *)
(*             calls;                                                      *)
(*   SpecNinja a Ninja wired to arbitrary Weapon / ThrowableWeapon         *)
(*             implementations, and calls of fight() and sneak().          *)
(***************************************************************************)
EXTENDS Integers, Sequences, FiniteSets, TLC

\* ---------------------------------------------------------------- bounds
MaxRequests == 6
NumCallers == 3
MaxResolves == 3
MaxCalls == 3

\* ------------------------------------------------------------- constants
PORT == 3000

Undefined == 0
NoResponse == [route |-> "", status |-> 0, body |-> ""]
NoResult == [method |-> "", self |-> 0, value |-> ""]

\* The injection tokens (types.ts, quoted in the README).
TYPES == [Warrior |-> "Warrior", Weapon |-> "Weapon", ThrowableWeapon |-> "ThrowableWeapon", WarriorController |-> "WarriorController"]

Capabilities == {TYPES.Warrior, TYPES.Weapon, TYPES.ThrowableWeapon}

Callers == 1..NumCallers

VARIABLES
    container,      \* DIContainer.container: Undefined or the index of a Container in heap
    heap,           \* every Container constructed so far: a sequence of registries
    registerCalls,  \* number of registerDependencies() runs
    objects,        \* every instance constructed by resolution, in order of construction
    response,       \* the response to the last request
    requests,       \* number of requests handled
    pc,             \* position of the entry point
    createResult,   \* outcome of the entry point's createApp() promise
    startupFailed,  \* some startup step failed
    caught,         \* the entry point's catch block ran
    errorLogged,    \* console.error("Error starting server:", ...) ran
    runningLogged,  \* the listen callback's console.log ran
    exitCode,       \* -1 while the process runs, else its exit code
    callerPc,       \* per API client: position around its createApp() call
    callerHandle,   \* per API client: the container its createApp() used
    resolved,       \* handles returned by the direct resolveDependencies() calls
    result,         \* SpecNinja: the last fight()/sneak() call and its value
    calls           \* SpecNinja: number of calls made

vars == <<container, heap, registerCalls, objects, response, requests, pc, createResult, startupFailed, caught, errorLogged, runningLogged, exitCode, callerPc, callerHandle, resolved, result, calls>>

diVars == <<container, heap, registerCalls>>
processVars == <<pc, createResult, startupFailed, caught, errorLogged, runningLogged, exitCode>>
requestVars == <<response, requests>>
apiVars == <<callerPc, callerHandle, resolved>>
ninjaVars == <<result, calls>>

\* ------------------------------------------------------------ DIContainer

\* new Container(): an empty registry, default scope Transient.
NewContainer == << >>

\* container.bind(id).to(impl): one more binding; no inSingletonScope(), so
\* the binding keeps the container's default scope.
bind(registry, id, impl) == Append(registry, [serviceIdentifier |-> id, implementationType |-> impl, scope |-> "Transient"])

registerDependencies_Twice(registry) == bind(bind(bind(bind(bind(registry, TYPES.Warrior, "Ninja"), TYPES.Weapon, "Katana"), TYPES.ThrowableWeapon, "Shuriken"), TYPES.WarriorController, "WarriorController"), TYPES.Warrior, "Ninja")

registerDependencies(registry) == bind(bind(bind(bind(registry, TYPES.Warrior, "Ninja"), TYPES.Weapon, "Katana"), TYPES.ThrowableWeapon, "Shuriken"), TYPES.WarriorController, "WarriorController")

\* The static state of DIContainer as one value.
DIState == [container |-> container, heap |-> heap, registerCalls |-> registerCalls]

Construct(di) == [container |-> Len(di.heap) + 1, heap |-> Append(di.heap, registerDependencies(NewContainer)), registerCalls |-> di.registerCalls + 1]

\* The guard dropped: a container per call.
resolveDependencies_NoGuard(di) == Construct(di)

\* if (!this.container) { this.container = new Container(); this.registerDependencies(); }
\* The value is the static state after the call; the call returns its .container.
resolveDependencies(di) == IF di.container = Undefined THEN Construct(di) ELSE di

SetDI(di) ==
    /\ container' = di.container
    /\ heap' = di.heap
    /\ registerCalls' = di.registerCalls

\* The bindings of a service identifier in the shared registry.
BindingsOf(id) == IF container = Undefined THEN << >> ELSE SelectSeq(heap[container], LAMBDA b : b.serviceIdentifier = id)

\* --------------------------------------------------------------- entities

\* Return values of the stand-in weapons a Ninja may be wired to besides the
\* registry's Katana and Shuriken.
StubResults == {"slash!", "stab!", ""}

Stub(s) == [class |-> "Stub", ret |-> s]

\* Katana.hit(): a fixed literal.
Katana_hit == "cut!"

\* Shuriken.throw(): a fixed literal.
Shuriken_throw == "hit!"

\* weapon.hit(), dispatched on the class of the object.
hit(objs, w) == IF objs[w].class = "Katana" THEN Katana_hit ELSE objs[w].ret

\* throwable.throw(), dispatched on the class of the object.
throw(objs, t) == IF objs[t].class = "Shuriken" THEN Shuriken_throw ELSE objs[t].ret

\* fight() delegating to the wrong collaborator.
Ninja_fight_Swapped(objs, n) == throw(objs, objs[n]._shuriken)

\* public fight() { return this._katana.hit(); }
Ninja_fight(objs, n) == hit(objs, objs[n]._katana)

\* public sneak() { return this._shuriken.throw(); }
Ninja_sneak(objs, n) == throw(objs, objs[n]._shuriken)

\* ------------------------------------------------------------- resolution

InstancesOf(objs, class) == {i \in 1..Len(objs) : objs[i].class = class}

RECURSIVE get(_, _, _)
RECURSIVE Instantiate(_, _, _)

\* container.get(id) on a registry: the instance of the one binding of id.
\* A Transient binding is activated anew on every resolution; a Singleton
\* binding is activated once.  The value is the objects after the resolution
\* and the reference resolved.
get(registry, objs, id) ==
    LET b == SelectSeq(registry, LAMBDA x : x.serviceIdentifier = id)[1]
        cached == InstancesOf(objs, b.implementationType)
    IN  IF b.scope = "Singleton" /\ cached # {}
        THEN [objs |-> objs, ref |-> CHOOSE i \in cached : TRUE]
        ELSE Instantiate(registry, objs, b.implementationType)

\* Construction of a class with its injected collaborators:
\*   Ninja             @inject(TYPES.Weapon) _katana, @inject(TYPES.ThrowableWeapon) _shuriken
\*   WarriorController constructor(@inject(TYPES.Warrior) private warrior)
\*   Katana, Shuriken, InitController: nothing injected.
Instantiate(registry, objs, class) ==
    IF class = "Ninja"
    THEN LET k == get(registry, objs, TYPES.Weapon)
             s == get(registry, k.objs, TYPES.ThrowableWeapon)
         IN  [objs |-> Append(s.objs, [class |-> "Ninja", _katana |-> k.ref, _shuriken |-> s.ref]), ref |-> Len(s.objs) + 1]
    ELSE IF class = "WarriorController"
    THEN LET w == get(registry, objs, TYPES.Warrior)
         IN  [objs |-> Append(w.objs, [class |-> "WarriorController", warrior |-> w.ref]), ref |-> Len(w.objs) + 1]
    ELSE [objs |-> Append(objs, [class |-> class]), ref |-> Len(objs) + 1]

\* ------------------------------------------------------------ controllers

\* WarriorController.fight(): return this.warrior.fight();
WarriorController_fight(objs, c) == Ninja_fight(objs, objs[c].warrior)

\* WarriorController.sneak(): return this.warrior.sneak();
WarriorController_sneak(objs, c) == Ninja_sneak(objs, objs[c].warrior)

InitController_fight_Empty == ""

\* InitController.fight(): return "base route. Hello World Fellas";
InitController_fight == "base route. Hello World Fellas"

\* What the route layer does with a handler's string return value: it is
\* sent as the body, as it is, with status 200.
send(route, value) == [route |-> route, status |-> 200, body |-> value]

\* The body the API documentation gives for an action.
JsonAction(s) == "{\"action\":\"" \o s \o "\"}"

\* ------------------------------------------------------------------- App

\* App.createApp(): resolveDependencies(), new InversifyExpressServer(container),
\* setConfig, build.  The body holds no await: it runs to its end in one
\* synchronous step and the caller resumes later, at its own await.  built
\* says whether the framework's build returned or threw.
createApp(di, built) == [di |-> resolveDependencies(di), handle |-> resolveDependencies(di).container, outcome |-> IF built THEN "fulfilled" ELSE "rejected"]

\* ----------------------------------------------------------- entry point

\* try { const app = await App.createApp(); ...
EntryCreateApp ==
    /\ pc = "start"
    /\ \E built \in BOOLEAN :
          LET r == createApp(DIState, built)
          IN  /\ SetDI(r.di)
              /\ createResult' = r.outcome
    /\ pc' = "awaiting"
    /\ UNCHANGED <<objects, requestVars, startupFailed, caught, errorLogged, runningLogged, exitCode, apiVars, ninjaVars>>

\* The await resumes.  Fulfilled: app.listen(PORT, callback) is called and
\* returns, the bind is still to come.  Rejected: the catch block runs,
\* console.error and process.exit(1).
EntryResume ==
    /\ pc = "awaiting"
    /\ IF createResult = "fulfilled"
       THEN /\ pc' = "binding"
            /\ UNCHANGED <<startupFailed, caught, errorLogged, exitCode>>
       ELSE /\ pc' = "exited"
            /\ startupFailed' = TRUE
            /\ caught' = TRUE
            /\ errorLogged' = TRUE
            /\ exitCode' = 1
    /\ UNCHANGED <<diVars, objects, requestVars, createResult, runningLogged, apiVars, ninjaVars>>

\* The port is bound: the listen callback logs "Server is running ...".
ListenOk ==
    /\ pc = "binding"
    /\ pc' = "listening"
    /\ runningLogged' = TRUE
    /\ UNCHANGED <<diVars, objects, requestVars, createResult, startupFailed, caught, errorLogged, exitCode, apiVars, ninjaVars>>

\* The port cannot be bound (in use, not permitted).  The failure is an
\* 'error' event of the HTTP server, emitted after app.listen returned and
\* after the try block was left; no 'error' listener is registered by the
\* entry point.  Depending on the framework's major version the event is
\*   "uncaught": thrown as an uncaught exception, which ends the process
\*               with exit code 1, or
\*   "callback": handed to the listen callback, which ignores its argument
\*               and logs "Server is running"; with nothing left to wait
\*               for the process ends with exit code 0.
\* In neither does the catch block run.
ListenError ==
    /\ pc = "binding"
    /\ pc' = "exited"
    /\ startupFailed' = TRUE
    /\ \E delivery \in {"uncaught", "callback"} :
          IF delivery = "uncaught"
          THEN /\ exitCode' = 1
               /\ UNCHANGED runningLogged
          ELSE /\ exitCode' = 0
               /\ runningLogged' = TRUE
    /\ UNCHANGED <<diVars, objects, requestVars, createResult, caught, errorLogged, apiVars, ninjaVars>>

\* ---------------------------------------------------------------- requests

\* The route layer builds the controller of the matched route for each
\* request, through the container, and sends what the handler returns.

\* GET /
GetRoot ==
    /\ pc = "listening"
    /\ requests < MaxRequests
    /\ LET c == Instantiate(heap[container], objects, "InitController")
       IN  /\ objects' = c.objs
           /\ response' = send("/", InitController_fight)
    /\ requests' = requests + 1
    /\ UNCHANGED <<diVars, processVars, apiVars, ninjaVars>>

\* A handler that binds the Warrior again in the shared registry on its way.
GetWarriorFight_Rebind ==
    /\ pc = "listening"
    /\ requests < MaxRequests
    /\ LET c == Instantiate(heap[container], objects, "WarriorController")
       IN  /\ objects' = c.objs
           /\ response' = send("/warrior/fight", WarriorController_fight(c.objs, c.ref))
    /\ requests' = requests + 1
    /\ heap' = [heap EXCEPT ![container] = bind(@, TYPES.Warrior, "Ninja")]
    /\ UNCHANGED <<container, registerCalls, processVars, apiVars, ninjaVars>>

\* GET /warrior/fight
GetWarriorFight ==
    /\ pc = "listening"
    /\ requests < MaxRequests
    /\ LET c == Instantiate(heap[container], objects, "WarriorController")
       IN  /\ objects' = c.objs
           /\ response' = send("/warrior/fight", WarriorController_fight(c.objs, c.ref))
    /\ requests' = requests + 1
    /\ UNCHANGED <<diVars, processVars, apiVars, ninjaVars>>

\* GET /warrior/sneak
GetWarriorSneak ==
    /\ pc = "listening"
    /\ requests < MaxRequests
    /\ LET c == Instantiate(heap[container], objects, "WarriorController")
       IN  /\ objects' = c.objs
           /\ response' = send("/warrior/sneak", WarriorController_sneak(c.objs, c.ref))
    /\ requests' = requests + 1
    /\ UNCHANGED <<diVars, processVars, apiVars, ninjaVars>>

\* ----------------------------------------------------------- specification

InitCommon ==
    /\ container = Undefined
    /\ heap = << >>
    /\ registerCalls = 0
    /\ response = NoResponse
    /\ requests = 0
    /\ pc = "start"
    /\ createResult = "pending"
    /\ startupFailed = FALSE
    /\ caught = FALSE
    /\ errorLogged = FALSE
    /\ runningLogged = FALSE
    /\ exitCode = -1
    /\ callerPc = [c \in Callers |-> "idle"]
    /\ callerHandle = [c \in Callers |-> Undefined]
    /\ resolved = << >>
    /\ result = NoResult
    /\ calls = 0

Init ==
    /\ InitCommon
    /\ objects = << >>

Next ==
    \/ EntryCreateApp
    \/ EntryResume
    \/ ListenOk
    \/ ListenError
    \/ GetRoot
    \/ GetWarriorFight
    \/ GetWarriorSneak

Spec == Init /\ [][Next]_vars

\* ------------------------------------------------- clients of the API

\* A createApp() whose container check and construction are separated by a
\* yield: the check is made in one step, the construction in a later one.
ApiCreateApp_Yield(c) ==
    /\ \/ /\ callerPc[c] = "idle"
          /\ callerPc' = [callerPc EXCEPT ![c] = IF container = Undefined THEN "unset" ELSE "set"]
          /\ UNCHANGED <<diVars, callerHandle>>
       \/ /\ callerPc[c] \in {"unset", "set"}
          /\ LET di == IF callerPc[c] = "unset" THEN Construct(DIState) ELSE DIState
             IN  /\ SetDI(di)
                 /\ callerHandle' = [callerHandle EXCEPT ![c] = di.container]
          /\ callerPc' = [callerPc EXCEPT ![c] = "fulfilled"]
    /\ UNCHANGED <<objects, requestVars, processVars, resolved, ninjaVars>>

\* Client c calls App.createApp(): the whole body runs in this one step and
\* leaves a settled promise; c has not resumed yet.
ApiCreateApp(c) ==
    /\ callerPc[c] = "idle"
    /\ \E built \in BOOLEAN :
          LET r == createApp(DIState, built)
          IN  /\ SetDI(r.di)
              /\ callerHandle' = [callerHandle EXCEPT ![c] = r.handle]
              /\ callerPc' = [callerPc EXCEPT ![c] = r.outcome]
    /\ UNCHANGED <<objects, requestVars, processVars, resolved, ninjaVars>>

\* Client c resumes after its await.
ApiResume(c) ==
    /\ callerPc[c] \in {"fulfilled", "rejected"}
    /\ callerPc' = [callerPc EXCEPT ![c] = IF callerPc[c] = "fulfilled" THEN "done" ELSE "failed"]
    /\ UNCHANGED <<diVars, objects, requestVars, processVars, callerHandle, resolved, ninjaVars>>

\* A direct DIContainer.resolveDependencies() call; the handle it returns is kept.
ApiResolve ==
    /\ Len(resolved) < MaxResolves
    /\ LET di == resolveDependencies(DIState)
       IN  /\ SetDI(di)
           /\ resolved' = Append(resolved, di.container)
    /\ UNCHANGED <<objects, requestVars, processVars, callerPc, callerHandle, ninjaVars>>

NextApi ==
    \/ \E c \in Callers : ApiCreateApp(c)
    \/ \E c \in Callers : ApiResume(c)
    \/ ApiResolve

SpecApi == Init /\ [][NextApi]_vars

\* ------------------------------------------------------------ Ninja alone

Weapons == {[class |-> "Katana"]} \cup {Stub(s) : s \in StubResults}

ThrowableWeapons == {[class |-> "Shuriken"]} \cup {Stub(s) : s \in StubResults}

\* A Ninja (object 3) wired to some Weapon (object 1) and some
\* ThrowableWeapon (object 2).
InitNinja ==
    /\ InitCommon
    /\ \E w \in Weapons, t \in ThrowableWeapons :
          objects = <<w, t, [class |-> "Ninja", _katana |-> 1, _shuriken |-> 2]>>

CallFight ==
    /\ calls < MaxCalls
    /\ result' = [method |-> "fight", self |-> 3, value |-> Ninja_fight(objects, 3)]
    /\ calls' = calls + 1
    /\ UNCHANGED <<diVars, objects, requestVars, processVars, apiVars>>

CallSneak ==
    /\ calls < MaxCalls
    /\ result' = [method |-> "sneak", self |-> 3, value |-> Ninja_sneak(objects, 3)]
    /\ calls' = calls + 1
    /\ UNCHANGED <<diVars, objects, requestVars, processVars, apiVars>>

NextNinja ==
    \/ CallFight
    \/ CallSneak

SpecNinja == InitNinja /\ [][NextNinja]_vars

\* ================================================================= claims

\* C1: every GET /warrior/fight response has the body {"action":"cut!"},
\* the fight() result wrapped under the key "action", not the bare string.
C1_FightBodyIsJsonAction == response.route = "/warrior/fight" => (response.status = 200 /\ response.body = JsonAction("cut!"))

\* C2: every GET /warrior/sneak response has the body {"action":"hit!"},
\* the sneak() result wrapped under the key "action", not the bare string.
C2_SneakBodyIsJsonAction == response.route = "/warrior/sneak" => (response.status = 200 /\ response.body = JsonAction("hit!"))

\* Every container handle handed out so far: by the direct
\* resolveDependencies() calls and to the createApp() calls that have run.
Handles == {resolved[i] : i \in 1..Len(resolved)} \cup {callerHandle[c] : c \in {d \in Callers : callerPc[d] # "idle"}}

\* C3: resolveDependencies() is idempotent.  The first call constructs the
\* container and runs registerDependencies once; every later call returns
\* that same handle (all handles handed out are the one static container)
\* and, once the container exists, no step constructs or registers again.
C3_ResolveIdempotent ==
    /\ [](Handles # {} => (Handles = {container} /\ container # Undefined /\ Len(heap) = 1 /\ registerCalls = 1))
    /\ [][container # Undefined => (container' = container /\ heap' = heap /\ registerCalls' = registerCalls)]_vars

C3_Witness == Len(resolved) >= 2 /\ resolved[1] = resolved[2] /\ \E c \in Callers : callerPc[c] = "done"

BoundImplementation == [Warrior |-> "Ninja", Weapon |-> "Katana", ThrowableWeapon |-> "Shuriken"]

\* C4: once the container exists, and whatever resolveDependencies() and
\* createApp() calls follow, each of Warrior, Weapon and ThrowableWeapon has
\* exactly one binding in the registry, to Ninja, Katana and Shuriken.
C4_OneBindingPerCapability ==
    container # Undefined =>
        \A cap \in Capabilities :
            /\ Len(BindingsOf(cap)) = 1
            /\ BindingsOf(cap)[1].implementationType = BoundImplementation[cap]

C4_Witness == container # Undefined /\ Len(resolved) = MaxResolves /\ \A c \in Callers : callerPc[c] \in {"done", "failed"}

\* C5: the Warrior, its Weapon and its ThrowableWeapon are singletons: all
\* resolutions, across all requests, yield the same instance, so at most one
\* instance of each implementation is ever constructed.
C5_SingletonInstances == \A class \in {"Ninja", "Katana", "Shuriken"} : Cardinality(InstancesOf(objects, class)) <= 1

\* C6: every startup failure, a failing app.listen included, is caught by
\* the entry point's try/catch, logged, and ends the process with a nonzero
\* exit code.
C6_StartupFailureCaught == startupFailed => (caught /\ errorLogged /\ pc = "exited" /\ exitCode > 0)

\* C7: every GET / response has status 200 and a non-empty string body,
\* whatever requests came before.
C7_RootGreeting == response.route = "/" => (response.status = 200 /\ response.body # "")

C7_Witness == response.route = "/" /\ requests >= 3 /\ InstancesOf(objects, "Ninja") # {}

\* C8: for every Weapon and ThrowableWeapon a Ninja is wired to, fight()
\* returns the value of hit() of its Weapon and sneak() the value of throw()
\* of its ThrowableWeapon, always a string; wired to the registry's Katana
\* and Shuriken that is "cut!" and "hit!".
C8_NinjaDelegates ==
    /\ result.method = "fight" => result.value = hit(objects, objects[result.self]._katana)
    /\ result.method = "sneak" => result.value = throw(objects, objects[result.self]._shuriken)
    /\ (result.method = "fight" /\ objects[1].class = "Katana") => result.value = "cut!"
    /\ (result.method = "sneak" /\ objects[2].class = "Shuriken") => result.value = "hit!"
    /\ result.method # "" => result.value \in StubResults \cup {"cut!", "hit!"}

C8_Witness == result.method = "fight" /\ result.value = "cut!" /\ objects[2].class = "Stub" /\ calls >= 2

\* C9: with several createApp() calls in flight at once, each resuming only
\* at its await, at most one Container is ever constructed and
\* registerDependencies runs at most once.
C9_AtMostOneContainer == Len(heap) <= 1 /\ registerCalls <= 1

C9_Witness == \E c1 \in Callers, c2 \in Callers : c1 # c2 /\ callerPc[c1] = "fulfilled" /\ callerPc[c2] = "fulfilled" /\ Len(heap) = 1

\* C10: handling a request leaves the shared registry as it was: no handler
\* step adds, removes or rebinds a binding or replaces the static container.
C10_RequestsKeepRegistry == [][requests' # requests => (container' = container /\ heap' = heap /\ registerCalls' = registerCalls)]_vars

C10_Witness == requests >= 3 /\ response.route = "/warrior/sneak" /\ container # Undefined /\ Len(heap[container]) = 4

====
